---- MODULE Spec2Model ----
(***************************************************************************)
(* Model of the Steam sync/upsert pipeline of the game analytics backend:  *)
(*   backend/app/steam_client.py  fetch_steam_app_details                  *)
(*   backend/app/main.py          sync_game_from_steam, create_game,       *)
(*                                sync_steam_game, sync_steam_batch       *)
(*   backend/app/models.py        Game (the games table)                   *)
(*                                                                         *)
(* Python's None / an absent dict key is None below, a present value v is  *)
(* Some(v).                                                                *)
(***************************************************************************)
EXTENDS Integers, Sequences, FiniteSets, TLC

None == [isNone |-> TRUE]
Some(v) == [isNone |-> FALSE, v |-> v]

(***************************************************************************)
(* Bounds of the model.                                                    *)
(***************************************************************************)
\* longest upstream list (genres, developers, publishers, categories)
MaxListLen == 2
\* calls of sync_steam_game made one after the other in SpecSeq / SpecNorm
MaxCalls == 2
\* longest body of a sync-steam-batch request
MaxBatch == 2

\* the appids requests are made for
AppIds == {620, 730}

(***************************************************************************)
(* The upstream (Steam storefront) response.                               *)
(***************************************************************************)
\* elements of an upstream list: a string, an object with a description, an
\* object without one, a number
ElemStr(s) == [k |-> "str", s |-> Some(s)]
ElemObj(d) == [k |-> "dict", s |-> d]
ElemNum == [k |-> "int", s |-> None]

ListAbsent == [k |-> "absent", items |-> <<>>]
ListNull == [k |-> "null", items |-> <<>>]
ListOf(items) == [k |-> "list", items |-> items]

\* requests.get(...) / raise_for_status() raised (timeout, refused, non-2xx)
HttpError == [t |-> "RequestException", has_key |-> FALSE, success |-> FALSE, data |-> None]
\* a 2xx JSON body: has_key: str(appid) is a key of it; success: its "success"
\* flag; data: its "data" object
HttpJson(has_key, success, data) ==
    [t |-> "json", has_key |-> has_key, success |-> success, data |-> data]

\* an upstream "data" object with every key absent
EmptyAppData ==
    [steam_appid |-> None, name |-> None,
     genres |-> ListAbsent, developers |-> ListAbsent,
     publishers |-> ListAbsent, categories |-> ListAbsent,
     release_date |-> None, metacritic |-> None, recommendations |-> None,
     supported_languages |-> None, header_image |-> None, is_free |-> None]

(***************************************************************************)
(* steam_client.py: fetch_steam_app_details                                *)
(***************************************************************************)
Raise(exc, status) == [ok |-> FALSE, exc |-> exc, status |-> status]

\* steam_client.py:41-47  app_data.get(key, []) or []
OrEmpty(lv) == IF lv.k = "list" THEN lv.items ELSE <<>>

\* steam_client.py:49,52  [g.get("description") for g in xs if isinstance(g, dict)]
Descriptions(xs) ==
    LET keep == SelectSeq(xs, LAMBDA e : e.k = "dict")
    IN  [i \in 1..Len(keep) |-> keep[i].s]

\* steam_client.py:50,51  [d for d in xs if isinstance(d, str)]
Strings(xs) ==
    LET keep == SelectSeq(xs, LAMBDA e : e.k = "str")
    IN  [i \in 1..Len(keep) |-> keep[i].s]

\* steam_client.py:54-61  (app_data.get(sub) or {}).get(key)
SubGet(sub) == IF sub.isNone THEN None ELSE sub.v

\* steam_client.py:65  bool(app_data.get("is_free", False))
IsFree(x) == IF x.isNone THEN FALSE ELSE x.v

\* steam_client.py:37-83  the normalised dict
Normalize(app_data) ==
    [steam_appid |-> app_data.steam_appid,
     name |-> app_data.name,
     genres |-> Descriptions(OrEmpty(app_data.genres)),
     developers |-> Strings(OrEmpty(app_data.developers)),
     publishers |-> Strings(OrEmpty(app_data.publishers)),
     categories |-> Descriptions(OrEmpty(app_data.categories)),
     release_date |-> SubGet(app_data.release_date),
     is_free |-> IsFree(app_data.is_free),
     metacritic_score |-> SubGet(app_data.metacritic),
     recommendations_count |-> SubGet(app_data.recommendations),
     header_image |-> app_data.header_image,
     languages |-> app_data.supported_languages]

\* steam_client.py:9-83. The status of a raise is the one the caller gives it.
fetch_steam_app_details(appid, http) ==
    IF http.t = "RequestException"
    THEN Raise("SteamAPIError", 0)
    ELSE IF ~http.has_key \/ ~http.success
    THEN Raise("SteamAPIError", 0)
    ELSE [ok |-> TRUE,
          steam_data |-> Normalize(IF http.data.isNone THEN EmptyAppData
                                   ELSE http.data.v)]

(***************************************************************************)
(* main.py: sync_game_from_steam, lines 40-62                              *)
(***************************************************************************)
RECURSIVE JoinFrom(_, _)
JoinFrom(xs, i) ==
    IF i > Len(xs) THEN ""
    ELSE IF i = Len(xs) THEN xs[i].v
    ELSE xs[i].v \o ", " \o JoinFrom(xs, i + 1)

\* ", ".join(xs): a TypeError when an element is None
CanJoin(xs) == \A i \in 1..Len(xs) : ~xs[i].isNone
Join(xs) == JoinFrom(xs, 1)

\* dateutil's parser.parse(raw).date() on the raw dates the model feeds it:
\* None stands for the ParserError it raises
DateOf(y, m, d) == [y |-> y, m |-> m, d |-> d]
date_parser_parse(raw) ==
    CASE raw = "Apr 18, 2011" -> Some(DateOf(2011, 4, 18))
      [] raw = "2012-08-21" -> Some(DateOf(2012, 8, 21))
      [] OTHER -> None

\* main.py:56-62
ReleaseDate_Sentinel(release_date_str) ==
    IF release_date_str.isNone \/ release_date_str.v = ""
    THEN None
    ELSE IF date_parser_parse(release_date_str.v).isNone
         THEN Some(DateOf(1970, 1, 1))
         ELSE date_parser_parse(release_date_str.v)

ReleaseDate(release_date_str) ==
    IF release_date_str.isNone \/ release_date_str.v = ""
    THEN None
    ELSE date_parser_parse(release_date_str.v)

\* main.py:45-62 and the values of lines 71-81 / 84-95
Render(appid, steam_data) ==
    IF steam_data.name.isNone \/ steam_data.name.v = ""
    THEN Raise("HTTPException", 404)
    ELSE IF \E f \in {"genres", "developers", "publishers", "categories"} :
                ~CanJoin(steam_data[f])
    THEN Raise("TypeError", 500)
    ELSE [ok |-> TRUE,
          key |-> steam_data.steam_appid,
          vals |-> [name |-> steam_data.name.v,
                    genre |-> Some(Join(steam_data.genres)),
                    developer |-> Some(Join(steam_data.developers)),
                    publisher |-> Some(Join(steam_data.publishers)),
                    release_date |-> ReleaseDate(steam_data.release_date),
                    is_free |-> steam_data.is_free,
                    metacritic_score |-> steam_data.metacritic_score,
                    recommendations_count |-> steam_data.recommendations_count,
                    header_image |-> steam_data.header_image,
                    languages |-> steam_data.languages,
                    categories |-> Some(Join(steam_data.categories))]]

\* main.py:40-62: fetch, classify, render
Prepare(appid, http) ==
    LET got == fetch_steam_app_details(appid, http)
    IN  IF ~got.ok THEN Raise("HTTPException", 502)
        ELSE Render(appid, got.steam_data)

(***************************************************************************)
(* models.py: the games table. db = [games, nextId, clock]: the rows, the  *)
(* next value of the id sequence, and the store's clock (func.now()),      *)
(* which advances with every transaction that writes.                      *)
(***************************************************************************)
EmptyDb == [games |-> {}, nextId |-> 1, clock |-> 0]

\* models.py:8-43  a freshly inserted row; created_at and updated_at are the
\* server defaults
Game(id, now, steam_appid, name, genre, developer, rest) ==
    [id |-> id, steam_appid |-> steam_appid, name |-> name,
     genre |-> genre, developer |-> developer,
     publisher |-> rest.publisher, release_date |-> rest.release_date,
     is_free |-> rest.is_free, metacritic_score |-> rest.metacritic_score,
     recommendations_count |-> rest.recommendations_count,
     header_image |-> rest.header_image, languages |-> rest.languages,
     categories |-> rest.categories,
     created_at |-> now, updated_at |-> now]

\* models.py:20-29  the column defaults of a row create_game inserts
ColumnDefaults ==
    [publisher |-> None, release_date |-> None, is_free |-> FALSE,
     metacritic_score |-> None, recommendations_count |-> None,
     header_image |-> None, languages |-> None, categories |-> None]

\* models.py:14  unique=True, nullable=True: NULLs never conflict
NoUniqueConstraint(games, row) == FALSE

UniqueViolation(games, row) ==
    /\ ~row.steam_appid.isNone
    /\ \E g \in games : g.id # row.id /\ g.steam_appid = row.steam_appid

\* main.py:64-68 and 140-144  query(Game).filter(Game.steam_appid == key):
\* a None key compiles to IS NULL
Matching(games, key) ==
    {g \in games : IF key.isNone THEN g.steam_appid.isNone
                   ELSE g.steam_appid = key}

\* .first() with no ORDER BY: any matching row, or None when there is none
First(games, key) ==
    IF Matching(games, key) = {} THEN {None}
    ELSE {Some(g) : g \in Matching(games, key)}

RowById(games, id) == CHOOSE g \in games : g.id = id

Ok(game) == [ok |-> TRUE, exc |-> "", status |-> 200, game |-> game]

(***************************************************************************)
(* main.py: sync_game_from_steam, lines 70-101                             *)
(***************************************************************************)
MirroredFields ==
    {"name", "genre", "developer", "publisher", "release_date", "is_free",
     "metacritic_score", "recommendations_count", "header_image",
     "languages", "categories"}

\* main.py:70-81, 99-100. loaded is the row as the session loaded it. The
\* flush writes the columns whose new value differs from the loaded one, and
\* emits no UPDATE (so onupdate does not fire) when none does.
UpdateCommit_KeepsCategories(db, loaded, vals) ==
    LET cur == RowById(db.games, loaded.id)
        changed == {f \in MirroredFields \ {"categories"} : vals[f] # loaded[f]}
        new == [f \in DOMAIN cur |->
                  IF f \in changed THEN vals[f]
                  ELSE IF f = "updated_at" THEN db.clock + 1
                  ELSE cur[f]]
    IN  IF changed = {} THEN [db |-> db, out |-> Ok(cur)]
        ELSE [db |-> [db EXCEPT !.games = (db.games \ {cur}) \cup {new},
                                !.clock = db.clock + 1],
              out |-> Ok(new)]

UpdateCommit(db, loaded, vals) ==
    LET cur == RowById(db.games, loaded.id)
        changed == {f \in MirroredFields : vals[f] # loaded[f]}
        new == [f \in DOMAIN cur |->
                  IF f \in changed THEN vals[f]
                  ELSE IF f = "updated_at" THEN db.clock + 1
                  ELSE cur[f]]
    IN  IF changed = {} THEN [db |-> db, out |-> Ok(cur)]
        ELSE [db |-> [db EXCEPT !.games = (db.games \ {cur}) \cup {new},
                                !.clock = db.clock + 1],
              out |-> Ok(new)]

\* main.py:83-100 and 151-159  db.add(game); db.commit(); db.refresh(game)
InsertCommit(db, row) ==
    IF UniqueViolation(db.games, row)
    THEN [db |-> db, out |-> Raise("IntegrityError", 500)]
    ELSE [db |-> [games |-> db.games \cup {row},
                  nextId |-> db.nextId + 1,
                  clock |-> db.clock + 1],
          out |-> Ok(row)]

\* main.py:70-101  game is what .first() returned
Upsert(db, game, key, vals) ==
    IF ~game.isNone
    THEN UpdateCommit(db, game.v, vals)
    ELSE InsertCommit(db, Game(db.nextId, db.clock + 1, key, vals.name,
                                vals.genre, vals.developer, vals))

\* main.py:39-101 run with no other request in between: every result the
\* call can have, as [db, out]
sync_game_from_steam(db, appid, http) ==
    LET p == Prepare(appid, http)
    IN  IF ~p.ok THEN {[db |-> db, out |-> p]}
        ELSE {Upsert(db, game, p.key, p.vals) : game \in First(db.games, p.key)}

\* main.py:133-160 run with no other request in between
create_game(db, game_in) ==
    IF ~game_in.steam_appid.isNone
       /\ First(db.games, game_in.steam_appid) # {None}
    THEN [db |-> db, out |-> Raise("HTTPException", 400)]
    ELSE InsertCommit(db, Game(db.nextId, db.clock + 1, game_in.steam_appid,
                               game_in.name, game_in.genre, game_in.developer,
                               ColumnDefaults))

(***************************************************************************)
(* State.                                                                  *)
(*   db         the games table                                           *)
(* of the sequential specifications:                                       *)
(*   in_appid   the appid the sequential calls are made for                *)
(*   in_http    what the upstream answers for it (unchanged between calls) *)
(*   calls      the sequential calls made so far: the table before the     *)
(*              call and the call's result                                 *)
(* of the concurrent specification, per request p being served:            *)
(*   pc[p]      where its handler stands                                   *)
(*   req[p]     the request: its kind, the appids of a sync, the body of a *)
(*              create                                                     *)
(*   local[p]   sync_game_from_steam's locals between its query and its    *)
(*              commit: game (what .first() returned, as loaded), the key  *)
(*              and the rendered values                                    *)
(*   sess[p]    its Session: inactive once a flush failed, and the row the *)
(*              identity map still holds loaded (the last one refreshed)   *)
(*   results[p] a batch's results list                                     *)
(*   log[p]     what each call of sync_game_from_steam did, in order       *)
(***************************************************************************)
VARIABLES db, in_appid, in_http, calls, pc, req, local, sess, results, log

vars == <<db, in_appid, in_http, calls, pc, req, local, sess, results, log>>
seqVars == <<in_appid, in_http, calls>>
procVars == <<pc, req, local, sess, results, log>>

Procs == {"p1", "p2"}

NoRequest == [kind |-> "none", appids |-> <<>>, game_in |-> None]
NoLocal == [game |-> None, key |-> None, vals |-> None]
NewSession == [inactive |-> FALSE, loaded |-> None]

ProcsIdle ==
    /\ pc = [p \in Procs |-> "idle"]
    /\ req = [p \in Procs |-> NoRequest]
    /\ local = [p \in Procs |-> NoLocal]
    /\ sess = [p \in Procs |-> NewSession]
    /\ results = [p \in Procs |-> <<>>]
    /\ log = [p \in Procs |-> <<>>]

(***************************************************************************)
(* Inputs of the sequential specifications.                                *)
(***************************************************************************)
RECURSIVE SeqsUpTo(_, _)
SeqsUpTo(S, n) ==
    IF n = 0 THEN {<<>>}
    ELSE SeqsUpTo(S, n - 1)
         \cup {Append(q, e) : q \in {x \in SeqsUpTo(S, n - 1) : Len(x) = n - 1},
                              e \in S}

Elements ==
    {ElemStr("Valve"), ElemObj(Some("Indie")), ElemObj(Some("Action")),
     ElemObj(None), ElemNum}

ListVals == {ListAbsent, ListNull} \cup {ListOf(q) : q \in SeqsUpTo(Elements, MaxListLen)}

ListFields == {"genres", "developers", "publishers", "categories"}

RawDates == {"", "Apr 18, 2011", "2012-08-21", "not-a-date"}

DateVals == {None, Some(None)} \cup {Some(Some(raw)) : raw \in RawDates}

NoData == {HttpError, HttpJson(FALSE, FALSE, None), HttpJson(TRUE, FALSE, None),
           HttpJson(TRUE, TRUE, None)}

\* upstream answers that vary the name, one list field and the release date
NormHttps(appid) ==
    NoData \cup
    {HttpJson(TRUE, TRUE,
        Some([[EmptyAppData EXCEPT !.steam_appid = Some(appid), !.name = name,
                                   !.release_date = date]
              EXCEPT ![f] = lv])) :
        name \in {None, Some(""), Some("Portal 2")},
        date \in DateVals, f \in ListFields, lv \in ListVals}

\* the fields other than the name and the appid, in two versions
RestOld ==
    [genres |-> ListOf(<<ElemObj(Some("Action"))>>),
     developers |-> ListOf(<<ElemStr("Valve")>>),
     publishers |-> ListOf(<<ElemStr("Valve")>>),
     categories |-> ListOf(<<ElemObj(Some("Co-op"))>>),
     release_date |-> Some(Some("Apr 18, 2011")),
     metacritic |-> Some(Some(95)), recommendations |-> Some(Some(1000)),
     supported_languages |-> Some("English"),
     header_image |-> Some("header.jpg"), is_free |-> Some(FALSE)]

RestNew ==
    [genres |-> ListOf(<<ElemObj(Some("Action")), ElemObj(Some("Indie"))>>),
     developers |-> ListOf(<<ElemStr("Valve"), ElemStr("Hidden Path")>>),
     publishers |-> ListOf(<<ElemStr("Valve Corp")>>),
     categories |-> ListOf(<<ElemObj(Some("Single-player"))>>),
     release_date |-> Some(Some("not-a-date")),
     metacritic |-> None, recommendations |-> Some(Some(2000)),
     supported_languages |-> Some("English, French"),
     header_image |-> Some("header2.jpg"), is_free |-> Some(TRUE)]

AppData(steam_appid, name, rest) ==
    [steam_appid |-> steam_appid, name |-> name,
     genres |-> rest.genres, developers |-> rest.developers,
     publishers |-> rest.publishers, categories |-> rest.categories,
     release_date |-> rest.release_date, metacritic |-> rest.metacritic,
     recommendations |-> rest.recommendations,
     supported_languages |-> rest.supported_languages,
     header_image |-> rest.header_image, is_free |-> rest.is_free]

\* upstream answers that vary the appid of the body, the name and the rest
SeqHttps(appid) ==
    {HttpError, HttpJson(TRUE, FALSE, None)} \cup
    {HttpJson(TRUE, TRUE, Some(AppData(id, Some(name), rest))) :
        id \in {None} \cup {Some(a) : a \in AppIds},
        name \in {"Portal 2", "Portal 2 Remastered"},
        rest \in {RestOld, RestNew}}

\* tables the program reaches: built by the handlers themselves
Manual(name, steam_appid) ==
    [name |-> name, steam_appid |-> steam_appid, genre |-> Some("Puzzle"),
     developer |-> None]

TheResult(S) == CHOOSE r \in S : TRUE

Db1 == create_game(EmptyDb, Manual("Tetris", None)).db
Db2 == create_game(Db1, Manual("Pong", None)).db
Db3 ==
    TheResult(sync_game_from_steam(Db1, 620,
        HttpJson(TRUE, TRUE, Some(AppData(Some(620), Some("Portal 2"), RestOld))))).db
Db4 == create_game(Db3, Manual("Counter-Strike", Some(730))).db

SeqStores == {EmptyDb, Db2, Db3, Db4}
NormStores == {EmptyDb, Db3}

(***************************************************************************)
(* The sequential specifications: sync_steam_game called MaxCalls times    *)
(* for the same appid, one call after the other, the upstream unchanged.   *)
(***************************************************************************)
InitSeq ==
    /\ db \in SeqStores
    /\ in_appid \in AppIds
    /\ in_http \in SeqHttps(in_appid)
    /\ calls = <<>>
    /\ ProcsIdle

InitNorm ==
    /\ db \in NormStores
    /\ in_appid \in AppIds
    /\ in_http \in NormHttps(in_appid)
    /\ calls = <<>>
    /\ ProcsIdle

\* main.py:162-169  the whole handler
sync_steam_game ==
    /\ Len(calls) < MaxCalls
    /\ \E r \in sync_game_from_steam(db, in_appid, in_http) :
          /\ db' = r.db
          /\ calls' = Append(calls, [pre |-> db, out |-> r.out])
    /\ UNCHANGED <<in_appid, in_http>>
    /\ UNCHANGED procVars

NextSeq == sync_steam_game

SpecSeq == InitSeq /\ [][NextSeq]_vars
SpecNorm == InitNorm /\ [][NextSeq]_vars

(***************************************************************************)
(* The concurrent specification: every request is served in its own        *)
(* Session; a handler's steps are its reads and its commits of the table,  *)
(* and other requests' steps come in between.                              *)
(***************************************************************************)
\* what the upstream answers a fetch in the concurrent specification
ConcHttps(appid) ==
    {HttpError,
     HttpJson(TRUE, TRUE, Some(AppData(Some(appid), Some("Portal 2"), RestOld)))}

CreateBodies ==
    {Manual("Tetris", None)} \cup {Manual("Portal", Some(a)) : a \in AppIds}

Init ==
    /\ db = EmptyDb
    /\ in_appid = 620
    /\ in_http = HttpError
    /\ calls = <<>>
    /\ ProcsIdle

\* main.py:226-247  one turn of the loop: the result appended for appid
sync_steam_batch_item_DropsFailure(res, appid, out) ==
    IF out.ok
    THEN Append(res, [appid |-> appid, ok |-> TRUE, id |-> out.game.id,
                      name |-> out.game.name, error |-> ""])
    ELSE res

sync_steam_batch_item(res, appid, out) ==
    IF out.ok
    THEN Append(res, [appid |-> appid, ok |-> TRUE, id |-> out.game.id,
                      name |-> out.game.name, error |-> ""])
    ELSE Append(res, [appid |-> appid, ok |-> FALSE, id |-> 0,
                      name |-> "", error |-> out.exc])

\* main.py:162-163  POST /games/sync-steam/{steam_appid} arrives
StartSync(p, appid) ==
    /\ pc[p] = "idle"
    /\ req' = [req EXCEPT ![p] = [kind |-> "sync", appids |-> <<appid>>,
                                  game_in |-> None]]
    /\ pc' = [pc EXCEPT ![p] = "lookup"]
    /\ UNCHANGED <<db, seqVars, local, sess, results, log>>

\* main.py:215-227  POST /games/sync-steam-batch arrives; an empty body
\* returns [] at once
StartBatch(p, appids) ==
    /\ pc[p] = "idle"
    /\ req' = [req EXCEPT ![p] = [kind |-> "batch", appids |-> appids,
                                  game_in |-> None]]
    /\ pc' = [pc EXCEPT ![p] = IF appids = <<>> THEN "done" ELSE "lookup"]
    /\ UNCHANGED <<db, seqVars, local, sess, results, log>>

\* main.py:133-134  POST /games arrives
StartCreate(p, game_in) ==
    /\ pc[p] = "idle"
    /\ req' = [req EXCEPT ![p] = [kind |-> "create", appids |-> <<>>,
                                  game_in |-> Some(game_in)]]
    /\ pc' = [pc EXCEPT ![p] = "create_check"]
    /\ UNCHANGED <<db, seqVars, local, sess, results, log>>

\* the appid sync_game_from_steam is running for
CurrentAppid(p) == req[p].appids[Len(log[p]) + 1]

\* a call of sync_game_from_steam ends with out: sync_steam_game returns or
\* raises it (main.py:168-169), sync_steam_batch appends its result and goes
\* on (main.py:227-248)
EndCall(p, prep_ok, found, out) ==
    /\ log' = [log EXCEPT ![p] =
                 Append(@, [appid |-> CurrentAppid(p), prep_ok |-> prep_ok,
                            found |-> found, out |-> out])]
    /\ results' = [results EXCEPT ![p] =
                     IF req[p].kind = "batch"
                     THEN sync_steam_batch_item(@, CurrentAppid(p), out)
                     ELSE @]
    /\ pc' = [pc EXCEPT ![p] =
                IF req[p].kind = "batch" /\ Len(log[p]) + 1 < Len(req[p].appids)
                THEN "lookup" ELSE "done"]

\* main.py:64-68  what the query hands back: a row the Session still holds
\* loaded keeps the attributes it was loaded with
Loaded(session, g) ==
    IF ~g.isNone /\ ~session.loaded.isNone /\ session.loaded.v.id = g.v.id
    THEN session.loaded
    ELSE g

\* main.py:40-68  fetch, render, query. A Session whose flush failed and that
\* was not rolled back refuses the query (PendingRollbackError).
SyncLookup(p) ==
    /\ pc[p] = "lookup"
    /\ \E http \in ConcHttps(CurrentAppid(p)) :
          LET pr == Prepare(CurrentAppid(p), http)
          IN  IF ~pr.ok
              THEN /\ EndCall(p, FALSE, FALSE, pr)
                   /\ UNCHANGED <<db, seqVars, req, local, sess>>
              ELSE IF sess[p].inactive
              THEN /\ EndCall(p, TRUE, FALSE, Raise("PendingRollbackError", 500))
                   /\ UNCHANGED <<db, seqVars, req, local, sess>>
              ELSE \E g \in First(db.games, pr.key) :
                      /\ local' = [local EXCEPT ![p] =
                                     [game |-> Loaded(sess[p], g), key |-> pr.key,
                                      vals |-> pr.vals]]
                      /\ pc' = [pc EXCEPT ![p] = "commit"]
                      /\ UNCHANGED <<db, seqVars, req, sess, results, log>>

\* main.py:70-101  update or add, commit, refresh. A failed flush leaves the
\* Session inactive: nothing in the code rolls it back.
SyncCommit(p) ==
    /\ pc[p] = "commit"
    /\ LET r == Upsert(db, local[p].game, local[p].key, local[p].vals)
       IN  /\ db' = r.db
           /\ sess' = [sess EXCEPT ![p] =
                         IF r.out.ok THEN [inactive |-> FALSE, loaded |-> Some(r.out.game)]
                         ELSE [inactive |-> TRUE, loaded |-> None]]
           /\ EndCall(p, TRUE, ~local[p].game.isNone, r.out)
    /\ local' = [local EXCEPT ![p] = NoLocal]
    /\ UNCHANGED <<seqVars, req>>

\* main.py:139-149
CreateCheck(p) ==
    /\ pc[p] = "create_check"
    /\ IF /\ ~req[p].game_in.v.steam_appid.isNone
          /\ First(db.games, req[p].game_in.v.steam_appid) # {None}
       THEN /\ pc' = [pc EXCEPT ![p] = "done"]
            /\ log' = [log EXCEPT ![p] =
                         <<[appid |-> 0, prep_ok |-> TRUE, found |-> TRUE,
                            out |-> Raise("HTTPException", 400)]>>]
       ELSE /\ pc' = [pc EXCEPT ![p] = "create_commit"]
            /\ log' = log
    /\ UNCHANGED <<db, seqVars, req, local, sess, results>>

\* main.py:151-160
CreateCommit(p) ==
    /\ pc[p] = "create_commit"
    /\ LET g == req[p].game_in.v
           r == InsertCommit(db, Game(db.nextId, db.clock + 1, g.steam_appid,
                                      g.name, g.genre, g.developer,
                                      ColumnDefaults))
       IN  /\ db' = r.db
           /\ log' = [log EXCEPT ![p] =
                        <<[appid |-> 0, prep_ok |-> TRUE, found |-> FALSE,
                           out |-> r.out]>>]
    /\ pc' = [pc EXCEPT ![p] = "done"]
    /\ UNCHANGED <<seqVars, req, local, sess, results>>

Next ==
    \E p \in Procs :
        \/ \E a \in AppIds : StartSync(p, a)
        \/ \E appids \in SeqsUpTo(AppIds, MaxBatch) : StartBatch(p, appids)
        \/ \E game_in \in CreateBodies : StartCreate(p, game_in)
        \/ SyncLookup(p)
        \/ SyncCommit(p)
        \/ CreateCheck(p)
        \/ CreateCommit(p)

Spec == Init /\ [][Next]_vars

(***************************************************************************)
(* Claims about one call, or two calls in sequence.                        *)
(***************************************************************************)
\* the table right after call i
PostDb(i) == IF i < Len(calls) THEN calls[i + 1].pre ELSE db

\* the upstream answered with a data object for the requested appid
Delivered == in_http.t = "json" /\ in_http.has_key /\ in_http.success

UpstreamData == IF in_http.data.isNone THEN EmptyAppData ELSE in_http.data.v

UsableName == ~UpstreamData.name.isNone /\ UpstreamData.name.v # ""

\* call i found a row and updated it
UpdatePath(i) ==
    /\ calls[i].out.ok
    /\ \E g \in calls[i].pre.games : g.id = calls[i].out.game.id

\* C5: a transport failure surfaces as 502 (UpstreamError); a received
\* response whose key is absent, whose success flag is false or that carries
\* no usable name surfaces as 404 (NotFoundError).
C5_FailureClassification ==
    \A i \in 1..Len(calls) :
        /\ in_http.t = "RequestException"
              => (~calls[i].out.ok /\ calls[i].out.status = 502)
        /\ (in_http.t = "json" /\ (~Delivered \/ ~UsableName))
              => (~calls[i].out.ok /\ calls[i].out.status = 404)

\* the entries of the expected shape: a string, or an object carrying a
\* description
ExpectedEntries(lv) ==
    LET keep == SelectSeq(OrEmpty(lv), LAMBDA e : ~e.s.isNone)
    IN  [i \in 1..Len(keep) |-> keep[i].s]

\* C8: whatever an upstream list field holds, a sync whose upstream delivers
\* a usable name succeeds, and the stored field is the comma-joined rendering
\* of exactly the entries of the expected shape ("" when there are none).
C8_ListRendering ==
    \A i \in 1..Len(calls) :
        (Delivered /\ UsableName) =>
            /\ calls[i].out.ok
            /\ calls[i].out.game.genre = Some(Join(ExpectedEntries(UpstreamData.genres)))
            /\ calls[i].out.game.developer = Some(Join(ExpectedEntries(UpstreamData.developers)))
            /\ calls[i].out.game.publisher = Some(Join(ExpectedEntries(UpstreamData.publishers)))
            /\ calls[i].out.game.categories = Some(Join(ExpectedEntries(UpstreamData.categories)))

\* no list of the upstream makes the join fail
ListsJoinable ==
    \A f \in {"genres", "categories"} :
        \A j \in 1..Len(OrEmpty(UpstreamData[f])) :
            OrEmpty(UpstreamData[f])[j].k = "dict" => ~OrEmpty(UpstreamData[f])[j].s.isNone

RawDate == SubGet(UpstreamData.release_date)

\* C9: a release_date_raw that is absent or does not parse never fails the
\* sync, on the create path and on the update path alike: the record then has
\* release_date unset; a raw date that parses yields that calendar date.
C9_DateResilience ==
    \A i \in 1..Len(calls) :
        (Delivered /\ UsableName /\ ListsJoinable) =>
            /\ calls[i].out.ok
            /\ calls[i].out.game \in PostDb(i).games
            /\ calls[i].out.game.release_date =
                  (IF RawDate.isNone THEN None ELSE date_parser_parse(RawDate.v))

\* an update found a row with a release date, the raw date did not parse, and
\* the row's date is unset now
C9_Witness ==
    \E i \in 1..Len(calls) :
        /\ UpdatePath(i)
        /\ RawDate = Some("not-a-date")
        /\ ~RowById(calls[i].pre.games, calls[i].out.game.id).release_date.isNone
        /\ calls[i].out.game.release_date.isNone

\* the eleven mirrored fields of the row hold what the upstream renders to,
\* and id, external id and created_at are those of the row found
OverwritesAndKeeps(i) ==
    LET old == RowById(calls[i].pre.games, calls[i].out.game.id)
        new == calls[i].out.game
        want == Prepare(in_appid, in_http).vals
    IN  /\ new \in PostDb(i).games
        /\ \A f \in MirroredFields : new[f] = want[f]
        /\ new.id = old.id
        /\ new.steam_appid = old.steam_appid
        /\ new.created_at = old.created_at

\* C7 as stated: an update overwrites every mirrored field, keeps id, external
\* id and created_at, and the store refreshes updated_at.
C7_UpdatedAtAlwaysRefreshed ==
    \A i \in 1..Len(calls) :
        UpdatePath(i) =>
            /\ OverwritesAndKeeps(i)
            /\ calls[i].out.game.updated_at
                  > RowById(calls[i].pre.games, calls[i].out.game.id).updated_at

\* C7 as amended: updated_at is refreshed when the update changes the value of
\* at least one field, and is left as it was when it changes none.
C7_UpdateOverwrites ==
    \A i \in 1..Len(calls) :
        UpdatePath(i) =>
            LET old == RowById(calls[i].pre.games, calls[i].out.game.id)
                new == calls[i].out.game
            IN  /\ OverwritesAndKeeps(i)
                /\ (\E f \in MirroredFields : new[f] # old[f])
                      => new.updated_at = calls[i].pre.clock + 1
                                /\ new.updated_at > old.updated_at
                /\ (\A f \in MirroredFields : new[f] = old[f])
                      => new.updated_at = old.updated_at

\* an update changed the name and the categories of the row it found
C7_Witness ==
    \E i \in 1..Len(calls) :
        /\ UpdatePath(i)
        /\ calls[i].out.game.name
              # RowById(calls[i].pre.games, calls[i].out.game.id).name
        /\ calls[i].out.game.categories
              # RowById(calls[i].pre.games, calls[i].out.game.id).categories
        /\ calls[i].out.game.updated_at
              > RowById(calls[i].pre.games, calls[i].out.game.id).updated_at

\* C10: a successful sync returns a record carrying the requested appid and
\* leaves every row with another (or no) external id as it was, whatever
\* appid the upstream body carries.
C10_Frame ==
    \A i \in 1..Len(calls) :
        calls[i].out.ok =>
            /\ calls[i].out.game.steam_appid = Some(in_appid)
            /\ \A g \in calls[i].pre.games :
                  g.steam_appid # Some(in_appid) => g \in PostDb(i).games

\* C2: two calls in sequence with the upstream unchanged return the same
\* record id, and the second inserts nothing.
C2_Idempotent ==
    (Len(calls) >= 2 /\ calls[1].out.ok) =>
        /\ calls[2].out.ok
        /\ calls[2].out.game.id = calls[1].out.game.id
        /\ Cardinality(PostDb(2).games) = Cardinality(calls[2].pre.games)

(***************************************************************************)
(* Claims about requests served concurrently.                              *)
(***************************************************************************)
\* C1: at most one row exists for any external id that is not null, whatever
\* create_game, sync_steam_game and sync_steam_batch requests ran and however
\* their steps interleaved; rows without an external id are not constrained.
C1_UniqueExternalId ==
    \A g1 \in db.games : \A g2 \in db.games :
        (~g1.steam_appid.isNone /\ g1.steam_appid = g2.steam_appid) => g1 = g2

\* two requests raced for the same appid: one inserted its row, the other's
\* insert was refused
C1_Witness ==
    \E p \in Procs : \E i \in 1..Len(log[p]) :
        /\ log[p][i].out.exc = "IntegrityError"
        /\ \E g \in db.games : ~g.steam_appid.isNone

\* C3: a batch returns one result per input appid, in input order: result i
\* carries appid i, and is a success with the row's id and name when the sync
\* of item i succeeded, a failure with its error otherwise.
C3_BatchResults ==
    \A p \in Procs :
        req[p].kind = "batch" =>
            /\ Len(results[p]) = Len(log[p])
            /\ Len(results[p]) <= Len(req[p].appids)
            /\ pc[p] = "done" => Len(results[p]) = Len(req[p].appids)
            /\ \A i \in 1..Len(results[p]) :
                  /\ results[p][i].appid = req[p].appids[i]
                  /\ results[p][i].ok = log[p][i].out.ok
                  /\ log[p][i].out.ok =>
                        /\ results[p][i].id = log[p][i].out.game.id
                        /\ results[p][i].name = log[p][i].out.game.name
                  /\ ~log[p][i].out.ok =>
                        /\ results[p][i].error = log[p][i].out.exc
                        /\ results[p][i].error # ""

\* a batch finished whose first item failed and whose second succeeded
C3_Witness ==
    \E p \in Procs :
        /\ req[p].kind = "batch"
        /\ pc[p] = "done"
        /\ Len(results[p]) >= 2
        /\ ~results[p][1].ok
        /\ results[p][2].ok

\* C4: in a batch, rows persisted by successful items stay persisted, and an
\* item after a failed one whose upstream fetch succeeded is synced as if it
\* were alone: it succeeds unless its own insert is refused.
C4_BatchIsolation ==
    \A p \in Procs :
        req[p].kind = "batch" =>
            /\ \A i \in 1..Len(log[p]) :
                  log[p][i].out.ok =>
                      \E g \in db.games : g.id = log[p][i].out.game.id
            /\ \A i \in 1..Len(log[p]) : \A j \in 1..Len(log[p]) :
                  (i < j /\ ~log[p][i].out.ok /\ log[p][j].prep_ok) =>
                      \/ log[p][j].out.ok
                      \/ log[p][j].out.exc = "IntegrityError"

\* C6: two syncs of the same appid that both found no row both complete
\* successfully and return the same row.
C6_ConflictRetry ==
    \A p \in Procs : \A q \in Procs :
        (/\ p # q
         /\ req[p].kind = "sync" /\ req[q].kind = "sync"
         /\ req[p].appids = req[q].appids
         /\ pc[p] = "done" /\ pc[q] = "done"
         /\ log[p][1].prep_ok /\ ~log[p][1].found
         /\ log[q][1].prep_ok /\ ~log[q][1].found) =>
            /\ log[p][1].out.ok
            /\ log[q][1].out.ok
            /\ log[p][1].out.game.id = log[q][1].out.game.id

====
